---- MODULE Spec2Model ----
(***************************************************************************)
(* Model of lib/icingadb/redisconnection.cpp (Icinga 2): a pipelined Redis *)
(* connection with priority write queues, a ledger of future response      *)
(* actions, a read loop, a write loop and a connect task, all running as   *)
(* coroutines on one strand.                                               *)
(*                                                                         *)
(* One step of the model is what a coroutine does between two suspension   *)
(* points (Wait, WriteOne, ReadOne, connect, timer, callback), or one      *)
(* closure posted to the strand, or one atomic exchange of Start().        *)
(*                                                                         *)
(* A query is identified by <<item, index>>: the index-th query of the     *)
(* item-th queued WriteQueueItem.  The reply to a query is identified with *)
(* the query, so that a reply routed to the wrong caller is visible.       *)
(* The server answers the written queries in write order: the replies not  *)
(* yet read are SubSeq(sent, consumed + 1, Len(sent)).                     *)
(*                                                                         *)
(* The connected callback is code outside this file; it is modelled as     *)
(* being invoked and returning normally.                                   *)
(***************************************************************************)
EXTENDS Integers, Sequences, FiniteSets, TLC

\* ---- bounds of the model ----
MaxItems == 2
MaxBatch == 2
MaxFail == 1
MaxStarters == 2
NumPrio == 2

Prio == 0 .. (NumPrio - 1)
NoPrio == 0 - 1
ItemIds == 1 .. MaxItems
BatchSizes == 0 .. MaxBatch

VARIABLES
    m_Started, m_Connecting, m_Connected,
    starting,      \* Start() calls between their two exchanges
    readLoops, writeLoops, \* coroutines spawned by Start()
    connTasks,     \* positions of the live Connect coroutines
    items,         \* the WriteQueueItems queued so far, by id
    Writes,        \* m_Queues.Writes: priority -> queue of item ids
    m_SuppressedQueryKinds,
    m_QueuedWrites, m_QueuedReads,
    FutureResponseActions, ReplyPromises, RepliesPromises,
    wPc, wItem, wIdx,                \* WriteLoop: position, item in WriteItem, queries written
    rPc, rItem, rLeft, rPromise, rReplies, \* ReadLoop: position and locals
    promise,       \* state of each item's std::promise
    sent,          \* queries written to the transport, in order
    consumed,      \* replies read by ReadOne
    sendFails, recvFails, \* transport failures so far
    halted,        \* the process was aborted
    heldBack,      \* a scan of the write loop skipped a suppressed class that held several items
    burst          \* the write loop first ran with MaxItems fire_one items of one class queued

vars == <<m_Started, m_Connecting, m_Connected, starting, readLoops, writeLoops,
          connTasks, items, Writes, m_SuppressedQueryKinds, m_QueuedWrites,
          m_QueuedReads, FutureResponseActions, ReplyPromises, RepliesPromises,
          wPc, wItem, wIdx, rPc, rItem, rLeft, rPromise, rReplies, promise,
          sent, consumed, sendFails, recvFails, halted, heldBack, burst>>

connVars == <<m_Started, m_Connecting, m_Connected, starting, readLoops, writeLoops, connTasks>>
queueVars == <<items, Writes, m_SuppressedQueryKinds, m_QueuedWrites>>
ledgerVars == <<FutureResponseActions, ReplyPromises, RepliesPromises, m_QueuedReads>>
writerVars == <<wPc, wItem, wIdx>>
readerVars == <<rPc, rItem, rLeft, rPromise, rReplies>>
wireVars == <<sent, consumed>>
failVars == <<sendFails, recvFails>>

NoRecord == [Amount |-> 0, Action |-> "None"]
Pending == [st |-> "pending", val |-> <<>>]
Exception == [st |-> "exception", val |-> <<>>]
Value(v) == [st |-> "value", val |-> v]

Init ==
    /\ m_Started = FALSE /\ m_Connecting = FALSE /\ m_Connected = FALSE
    /\ starting = 0 /\ readLoops = 0 /\ writeLoops = 0
    /\ connTasks = <<>>
    /\ items = <<>>
    /\ Writes = [p \in Prio |-> <<>>]
    /\ m_SuppressedQueryKinds = {}
    /\ m_QueuedWrites = FALSE /\ m_QueuedReads = FALSE
    /\ FutureResponseActions = <<>> /\ ReplyPromises = <<>> /\ RepliesPromises = <<>>
    /\ wPc = "none" /\ wItem = 0 /\ wIdx = 0
    /\ rPc = "none" /\ rItem = NoRecord /\ rLeft = 0 /\ rPromise = 0 /\ rReplies = <<>>
    /\ promise = [i \in ItemIds |-> Pending]
    /\ sent = <<>> /\ consumed = 0
    /\ sendFails = 0 /\ recvFails = 0
    /\ halted = FALSE
    /\ heldBack = FALSE
    /\ burst = FALSE

\* ---- Start() ----

\* m_Started.exchange(true) and the spawn of both loops
SpawnLoops(was) == ~was

StartBegin ==
    /\ ~halted
    /\ starting < MaxStarters
    /\ starting' = starting + 1
    /\ m_Started' = TRUE
    /\ IF SpawnLoops(m_Started)
       THEN /\ readLoops' = readLoops + 1
            /\ writeLoops' = writeLoops + 1
            /\ rPc' = "wait"
            /\ wPc' = "wait"
       ELSE UNCHANGED <<readLoops, writeLoops, rPc, wPc>>
    /\ UNCHANGED <<m_Connecting, m_Connected, connTasks, queueVars, ledgerVars,
                   wItem, wIdx, rItem, rLeft, rPromise, rReplies, promise,
                   wireVars, failVars, halted, heldBack, burst>>

SpawnConnectAlways(was) == TRUE

\* m_Connecting.exchange(true) and the spawn of Connect
SpawnConnect(was) == ~was

StartEnd ==
    /\ ~halted
    /\ starting > 0
    /\ starting' = starting - 1
    /\ m_Connecting' = TRUE
    /\ connTasks' = IF SpawnConnect(m_Connecting) THEN Append(connTasks, "connect") ELSE connTasks
    /\ UNCHANGED <<m_Started, m_Connected, readLoops, writeLoops, queueVars, ledgerVars,
                   writerVars, readerVars, promise, wireVars, failVars, halted, heldBack, burst>>

\* ---- Connect() ----

RemoveAt(s, i) == SubSeq(s, 1, i - 1) \o SubSeq(s, i + 1, Len(s))

StoreConnectedLate == FALSE

\* m_Connected.store(true), before the callback is invoked
StoreConnected == TRUE

\* the open attempt succeeds: m_Connected = true, then the callback (if set) or break
ConnectOk ==
    /\ ~halted
    /\ \E i \in 1 .. Len(connTasks) :
        /\ connTasks[i] = "connect"
        /\ m_Connected' = StoreConnected
        /\ \E cb \in BOOLEAN :
            IF cb
            THEN /\ connTasks' = [connTasks EXCEPT ![i] = "callback"]
                 /\ UNCHANGED m_Connecting
            ELSE /\ connTasks' = RemoveAt(connTasks, i)
                 /\ m_Connecting' = TRUE
    /\ UNCHANGED <<m_Started, starting, readLoops, writeLoops, queueVars, ledgerVars,
                   writerVars, readerVars, promise, wireVars, failVars, halted, heldBack, burst>>

\* the open attempt throws: log, then wait on the timer
ConnectFail ==
    /\ ~halted
    /\ \E i \in 1 .. Len(connTasks) :
        /\ connTasks[i] = "connect"
        /\ connTasks' = [connTasks EXCEPT ![i] = "timer"]
    /\ UNCHANGED <<m_Started, m_Connecting, m_Connected, starting, readLoops, writeLoops,
                   queueVars, ledgerVars, writerVars, readerVars, promise, wireVars,
                   failVars, halted, heldBack, burst>>

\* the 5 s timer expires: next attempt
ConnectTimer ==
    /\ ~halted
    /\ \E i \in 1 .. Len(connTasks) :
        /\ connTasks[i] = "timer"
        /\ connTasks' = [connTasks EXCEPT ![i] = "connect"]
    /\ UNCHANGED <<m_Started, m_Connecting, m_Connected, starting, readLoops, writeLoops,
                   queueVars, ledgerVars, writerVars, readerVars, promise, wireVars,
                   failVars, halted, heldBack, burst>>

\* the callback returns: break, and the Defer stores m_Connecting = m_Connected
CallbackReturn ==
    /\ ~halted
    /\ \E i \in 1 .. Len(connTasks) :
        /\ connTasks[i] = "callback"
        /\ connTasks' = RemoveAt(connTasks, i)
    /\ m_Connecting' = m_Connected
    /\ UNCHANGED <<m_Started, m_Connected, starting, readLoops, writeLoops, queueVars,
                   ledgerVars, writerVars, readerVars, promise, wireVars, failVars, halted, heldBack, burst>>

\* ---- submission API: the closures posted to the strand ----

PushFront(q, it) == <<it>> \o q

\* std::queue::emplace: at the back
Push(q, it) == Append(q, it)

Item(kind, n, p) == [kind |-> kind, n |-> n, prio |-> p]

\* m_Queues.Writes[priority].emplace(item); m_QueuedWrites.Set()
Emplace(kind, n, p) ==
    /\ ~halted
    /\ Len(items) < MaxItems
    /\ items' = Append(items, Item(kind, n, p))
    /\ Writes' = [Writes EXCEPT ![p] = Push(@, Len(items) + 1)]
    /\ m_QueuedWrites' = TRUE
    /\ UNCHANGED <<connVars, m_SuppressedQueryKinds, ledgerVars, writerVars, readerVars,
                   promise, wireVars, failVars, halted, heldBack, burst>>

FireAndForgetQuery == \E p \in Prio : Emplace("FireOne", 1, p)

FireAndForgetQueries == \E p \in Prio, n \in BatchSizes : Emplace("FireMany", n, p)

GetResultOfQuery == \E p \in Prio : Emplace("AwaitOne", 1, p)

GetResultsOfQueries == \E p \in Prio, n \in BatchSizes : Emplace("AwaitMany", n, p)

SuppressQueryKind ==
    /\ ~halted
    /\ \E kind \in Prio :
        /\ kind \notin m_SuppressedQueryKinds
        /\ m_SuppressedQueryKinds' = m_SuppressedQueryKinds \cup {kind}
    /\ UNCHANGED <<connVars, items, Writes, m_QueuedWrites, ledgerVars, writerVars,
                   readerVars, promise, wireVars, failVars, halted, heldBack, burst>>

UnsuppressNoSet == FALSE

\* m_QueuedWrites.Set() in the handler posted by UnsuppressQueryKind
UnsuppressSet == TRUE

UnsuppressQueryKind ==
    /\ ~halted
    /\ \E kind \in Prio :
        m_SuppressedQueryKinds' = m_SuppressedQueryKinds \ {kind}
    /\ m_QueuedWrites' = (m_QueuedWrites \/ UnsuppressSet)
    /\ UNCHANGED <<connVars, items, Writes, ledgerVars, writerVars, readerVars, promise,
                   wireVars, failVars, halted, heldBack, burst>>

\* ---- the ledger ----

Record(k, a) == [Amount |-> k, Action |-> a]

CoalesceByOne(led, k, a) ==
    IF led = <<>> \/ led[Len(led)].Action # a
    THEN Append(led, Record(k, a))
    ELSE [led EXCEPT ![Len(led)].Amount = @ + 1]

CoalesceNever(led, k, a) == Append(led, Record(k, a))

\* FutureResponseActions.emplace / ++back().Amount for Ignore and Deliver
Coalesce(led, k, a) ==
    IF led = <<>> \/ led[Len(led)].Action # a
    THEN Append(led, Record(k, a))
    ELSE [led EXCEPT ![Len(led)].Amount = @ + k]

EmplaceBulkSplit(led, k) == led \o [i \in 1 .. k |-> Record(1, "DeliverBulk")]

\* FutureResponseActions.emplace(FutureResponseAction{size, DeliverBulk})
EmplaceBulk(led, k) == Append(led, Record(k, "DeliverBulk"))

\* ---- WriteLoop() and WriteItem() ----

\* the part of the state a strand step of the write loop works on
WriterState == [W |-> Writes, led |-> FutureResponseActions, rp |-> ReplyPromises,
                rps |-> RepliesPromises, qr |-> m_QueuedReads, qw |-> m_QueuedWrites,
                pc |-> wPc, cur |-> wItem]

QueuedReadsNotSet == FALSE

\* m_QueuedReads.Set() at the end of each case of WriteItem
QueuedReadsSet == TRUE

\* WriteItem after the last WriteOne of the item returned
Written(it, st) ==
    CASE items[it].kind = "FireOne" ->
            [st EXCEPT !.led = Coalesce(@, 1, "Ignore"), !.qr = QueuedReadsSet]
      [] items[it].kind = "FireMany" ->
            [st EXCEPT !.led = Coalesce(@, items[it].n, "Ignore"), !.qr = QueuedReadsSet]
      [] items[it].kind = "AwaitOne" ->
            [st EXCEPT !.rp = Append(@, it), !.led = Coalesce(@, 1, "Deliver"), !.qr = QueuedReadsSet]
      [] items[it].kind = "AwaitMany" ->
            [st EXCEPT !.rps = Append(@, it), !.led = EmplaceBulk(@, items[it].n), !.qr = QueuedReadsSet]

SetMin(S) == CHOOSE x \in S : \A y \in S : x <= y

NextQueueIgnoringSuppression(W, supp) ==
    LET cands == {p \in Prio : W[p] # <<>>}
    IN  IF cands = {} THEN NoPrio ELSE SetMin(cands)

\* the first queue in map order that is neither suppressed nor empty
NextQueue(W, supp) ==
    LET cands == {p \in Prio : p \notin supp /\ W[p] # <<>>}
    IN  IF cands = {} THEN NoPrio ELSE SetMin(cands)

\* queue.second.front()
Front(q) == Head(q)

\* queue.second.pop()
Pop(q) == Tail(q)

\* the for loop at WriteFirstOfHighestPrio, up to the next suspension:
\* an item without queries is written without suspending
RECURSIVE Scan(_)
Scan(st) ==
    LET p == NextQueue(st.W, m_SuppressedQueryKinds)
    IN  IF p = NoPrio
        THEN [st EXCEPT !.qw = FALSE, !.pc = "wait", !.cur = 0]
        ELSE LET it == Front(st.W[p])
                 st1 == [st EXCEPT !.W[p] = Pop(@)]
             IN  IF items[it].n = 0
                 THEN Scan(Written(it, st1))
                 ELSE [st1 EXCEPT !.pc = "write", !.cur = it]

\* nothing is written yet, and the only items are MaxItems fire_one items queued in
\* one class
QueuedBurst ==
    /\ sent = <<>> /\ FutureResponseActions = <<>>
    /\ Len(items) = MaxItems
    /\ \E p \in Prio :
        /\ Writes[p] = [i \in 1 .. MaxItems |-> i]
        /\ \A i \in 1 .. MaxItems : items[i] = Item("FireOne", 1, p)

\* the scan skips a suppressed class that holds more than one item
SkipsSeveral(W) == \E p \in m_SuppressedQueryKinds : Len(W[p]) > 1

WriterSet(st) ==
    /\ Writes' = st.W
    /\ FutureResponseActions' = st.led
    /\ ReplyPromises' = st.rp
    /\ RepliesPromises' = st.rps
    /\ m_QueuedReads' = st.qr
    /\ m_QueuedWrites' = st.qw
    /\ wPc' = st.pc
    /\ wItem' = st.cur
    /\ wIdx' = 0
    /\ heldBack' = (heldBack \/ SkipsSeveral(Writes))
    /\ burst' = (burst \/ QueuedBurst)

\* m_QueuedWrites.Wait(yc) returns
WriteLoopWake ==
    /\ ~halted
    /\ wPc = "wait"
    /\ m_QueuedWrites
    /\ WriterSet(Scan(WriterState))
    /\ UNCHANGED <<connVars, items, m_SuppressedQueryKinds, readerVars, promise, wireVars,
                   failVars, halted>>

\* is the query written now the last one of the item?
LastOfItem(it, written) == written = items[it].n

\* WriteOne returns: the query is on the wire
WriteOneOk ==
    /\ ~halted
    /\ wPc = "write"
    /\ m_Connected
    /\ sent' = Append(sent, <<wItem, wIdx + 1>>)
    /\ IF LastOfItem(wItem, wIdx + 1)
       THEN WriterSet(Scan(Written(wItem, WriterState)))
       ELSE /\ wIdx' = wIdx + 1
            /\ UNCHANGED <<Writes, ledgerVars, m_QueuedWrites, wPc, wItem, heldBack, burst>>
    /\ UNCHANGED <<connVars, items, m_SuppressedQueryKinds, readerVars, promise, consumed,
                   failVars, halted>>

\* the catch blocks of WriteItem: log (fire and forget) or set_exception, then return
SendFailed ==
    /\ promise' = IF items[wItem].kind \in {"AwaitOne", "AwaitMany"}
                  THEN [promise EXCEPT ![wItem] = Exception]
                  ELSE promise
    /\ WriterSet(Scan(WriterState))

\* WriteOne throws
WriteOneFail ==
    /\ ~halted
    /\ wPc = "write"
    /\ m_Connected
    /\ sendFails + recvFails < MaxFail
    /\ sendFails' = sendFails + 1
    /\ SendFailed
    /\ UNCHANGED <<connVars, items, m_SuppressedQueryKinds, readerVars, wireVars,
                   recvFails, halted>>

\* WriteOne before the connect task has set m_TcpConn / m_UnixConn: the stream
\* pointer is null; the process aborts or the write throws
WriteOneNoConn ==
    /\ ~halted
    /\ wPc = "write"
    /\ ~m_Connected
    /\ \/ /\ halted' = TRUE
          /\ UNCHANGED <<Writes, ledgerVars, m_QueuedWrites, writerVars, promise, heldBack, burst>>
       \/ /\ SendFailed
          /\ UNCHANGED halted
    /\ UNCHANGED <<connVars, items, m_SuppressedQueryKinds, readerVars, wireVars, failVars>>

\* ---- ReadLoop() ----

\* the part of the state a strand step of the read loop works on
ReaderState == [led |-> FutureResponseActions, rp |-> ReplyPromises, rps |-> RepliesPromises,
                qr |-> m_QueuedReads, pc |-> rPc, rec |-> rItem, left |-> rLeft,
                prom |-> rPromise, reps |-> rReplies, prm |-> promise]

\* the read loop is left by an exception, or waits: no locals are live
Leave(st, pc) ==
    [st EXCEPT !.pc = pc, !.rec = NoRecord, !.left = 0, !.prom = 0, !.reps = <<>>]

\* replies.emplace_back(reply)
EmplaceBack(reps, reply) == Append(reps, reply)

PromiseBack(q) == q[Len(q)]

\* the promise the Deliver case takes: m_Queues.ReplyPromises.front()
PromiseFront(q) == Head(q)

\* while (!FutureResponseActions.empty()) { pop; switch ... } up to the next ReadOne;
\* a record with Amount 0 is handled without suspending
RECURSIVE Drain(_)
Drain(st) ==
    IF st.led = <<>>
    THEN [Leave(st, "wait") EXCEPT !.qr = FALSE]
    ELSE LET rec == Head(st.led)
             st1 == [st EXCEPT !.led = Tail(@), !.rec = rec, !.left = rec.Amount,
                               !.prom = 0, !.reps = <<>>]
         IN  CASE rec.Action = "Ignore" ->
                    IF rec.Amount = 0 THEN Drain(st1) ELSE [st1 EXCEPT !.pc = "read"]
               [] rec.Action = "Deliver" ->
                    IF rec.Amount = 0
                    THEN Drain(st1)
                    ELSE [st1 EXCEPT !.pc = "read", !.prom = PromiseFront(st.rp),
                                     !.rp = Tail(@)]
               [] rec.Action = "DeliverBulk" ->
                    LET pr == Head(st.rps)
                        st2 == [st1 EXCEPT !.prom = pr, !.rps = Tail(@)]
                    IN  IF rec.Amount = 0
                        THEN Drain([st2 EXCEPT !.prm[pr] = Value(<<>>)])
                        ELSE [st2 EXCEPT !.pc = "read"]

DeliverNextNoPop(st) ==
    IF st.left = 1 THEN Drain(st) ELSE [st EXCEPT !.left = @ - 1]

\* the Deliver case after one iteration: the next promise, or the next record
DeliverNext(st) ==
    IF st.left = 1
    THEN Drain(st)
    ELSE [st EXCEPT !.left = @ - 1, !.prom = PromiseFront(st.rp), !.rp = Tail(@)]

\* promise.set_value(replies) after the for loop of the DeliverBulk case:
\* a promise that already holds an exception throws std::future_error
BulkDone(st) ==
    IF st.prm[st.prom].st = "pending"
    THEN Drain([st EXCEPT !.prm[st.prom] = Value(st.reps)])
    ELSE Leave(st, "dead")

\* ReadOne returned reply
AfterRead(st, reply) ==
    CASE st.rec.Action = "Ignore" ->
            IF st.left = 1 THEN Drain(st) ELSE [st EXCEPT !.left = @ - 1]
      [] st.rec.Action = "Deliver" ->
            DeliverNext([st EXCEPT !.prm[st.prom] = Value(<<reply>>)])
      [] st.rec.Action = "DeliverBulk" ->
            LET st1 == [st EXCEPT !.reps = EmplaceBack(@, reply)]
            IN  IF st.left = 1 THEN BulkDone(st1) ELSE [st1 EXCEPT !.left = @ - 1]

\* the Ignore case after ReadOne threw: log, continue
IgnoreFailed(st) == Drain(st)

\* the DeliverBulk case after ReadOne threw: set_exception, continue (the for loop)
BulkFailed(st) ==
    IF st.prm[st.prom].st # "pending"
    THEN Leave(st, "dead")
    ELSE LET st1 == [st EXCEPT !.prm[st.prom] = Exception]
         IN  IF st.left = 1 THEN BulkDone(st1) ELSE [st1 EXCEPT !.left = @ - 1]

\* ReadOne threw
AfterReadFailed(st) ==
    CASE st.rec.Action = "Ignore" -> IgnoreFailed(st)
      [] st.rec.Action = "Deliver" -> DeliverNext([st EXCEPT !.prm[st.prom] = Exception])
      [] st.rec.Action = "DeliverBulk" -> BulkFailed(st)

ReaderSet(st) ==
    /\ FutureResponseActions' = st.led
    /\ ReplyPromises' = st.rp
    /\ RepliesPromises' = st.rps
    /\ m_QueuedReads' = st.qr
    /\ rPc' = st.pc
    /\ rItem' = st.rec
    /\ rLeft' = st.left
    /\ rPromise' = st.prom
    /\ rReplies' = st.reps
    /\ promise' = st.prm
    \* an exception that leaves ReadLoop may end the process
    /\ IF st.pc = "dead" THEN halted' \in BOOLEAN ELSE UNCHANGED halted

\* m_QueuedReads.Wait(yc) returns
ReadLoopWake ==
    /\ ~halted
    /\ rPc = "wait"
    /\ m_QueuedReads
    /\ ReaderSet(Drain(ReaderState))
    /\ UNCHANGED <<connVars, queueVars, writerVars, wireVars, failVars, heldBack, burst>>

\* ReadOne returns the next reply of the server
ReadOneOk ==
    /\ ~halted
    /\ rPc = "read"
    /\ consumed < Len(sent)
    /\ consumed' = consumed + 1
    /\ ReaderSet(AfterRead(ReaderState, sent[consumed + 1]))
    /\ UNCHANGED <<connVars, queueVars, writerVars, sent, failVars, heldBack, burst>>

\* ReadOne throws, with or without having consumed a reply
ReadOneFail ==
    /\ ~halted
    /\ rPc = "read"
    /\ sendFails + recvFails < MaxFail
    /\ recvFails' = recvFails + 1
    /\ \E c \in {0, 1} :
        /\ consumed + c <= Len(sent)
        /\ consumed' = consumed + c
    /\ ReaderSet(AfterReadFailed(ReaderState))
    /\ UNCHANGED <<connVars, queueVars, writerVars, sent, sendFails, heldBack, burst>>

Next ==
    \/ StartBegin
    \/ StartEnd
    \/ ConnectOk
    \/ ConnectFail
    \/ ConnectTimer
    \/ CallbackReturn
    \/ FireAndForgetQuery
    \/ FireAndForgetQueries
    \/ GetResultOfQuery
    \/ GetResultsOfQueries
    \/ SuppressQueryKind
    \/ UnsuppressQueryKind
    \/ WriteLoopWake
    \/ WriteOneOk
    \/ WriteOneFail
    \/ WriteOneNoConn
    \/ ReadLoopWake
    \/ ReadOneOk
    \/ ReadOneFail

Spec == Init /\ [][Next]_vars

\* Scheduling: a Start() call runs to its end, the 5 s timer expires, the callback
\* returns, an open attempt ends, and open attempts that are made again and again
\* succeed at some time.
ConnectFairness ==
    /\ WF_vars(StartEnd)
    /\ WF_vars(ConnectTimer)
    /\ WF_vars(CallbackReturn)
    /\ SF_vars(ConnectOk)

FairConnectSpec == Spec /\ ConnectFairness

\* Scheduling: the write loop runs when its signal is set, and every transport
\* write completes.
WriteFairness ==
    /\ WF_vars(WriteLoopWake)
    /\ WF_vars(WriteOneOk \/ WriteOneFail \/ WriteOneNoConn)

\* the steps of the executions in which the read loop is never scheduled; the read
\* loop's steps leave the write queues, the suppression set, m_QueuedWrites and the
\* write loop's position alone
WriteSideNext ==
    \/ StartBegin
    \/ StartEnd
    \/ ConnectOk
    \/ ConnectFail
    \/ ConnectTimer
    \/ CallbackReturn
    \/ FireAndForgetQuery
    \/ FireAndForgetQueries
    \/ GetResultOfQuery
    \/ GetResultsOfQueries
    \/ SuppressQueryKind
    \/ UnsuppressQueryKind
    \/ WriteLoopWake
    \/ WriteOneOk
    \/ WriteOneFail
    \/ WriteOneNoConn

FairWriteSpec == Init /\ [][WriteSideNext]_vars /\ WriteFairness

\* ---- helpers of the properties ----

SentItem(a) == sent[a][1]
Positions == 1 .. Len(sent)
PrioOf(it) == items[it].prio
Queued == 1 .. Len(items)
OwnReplies(it) == [k \in 1 .. items[it].n |-> <<it, k>>]

RECURSIVE SumAmount(_)
SumAmount(led) == IF led = <<>> THEN 0 ELSE Head(led).Amount + SumAmount(Tail(led))

IsBulk(rec) == rec.Action = "DeliverBulk"
BulkRecords == SelectSeq(FutureResponseActions, IsBulk)

\* replies the server owes for the queries written
Owed == Len(sent) - consumed
\* replies the ledger, the record the read loop works on and the item the write
\* loop works on account for
Accounted == SumAmount(FutureResponseActions) + rLeft + (IF wPc = "write" THEN wIdx ELSE 0)

\* ---- claims ----

\* C1: without transport send or receive failures, the value set on the sink of an
\* await_one item is the reply to that item's own query.
C1_ReplyRouting ==
    (sendFails = 0 /\ recvFails = 0) =>
        \A it \in Queued :
            (items[it].kind = "AwaitOne" /\ promise[it].st = "value")
                => promise[it].val = <<<<it, 1>>>>

\* C1 witness: two await_one items were written in the reverse of their queuing
\* order and both sinks hold a value.
C1_Witness ==
    /\ sendFails = 0 /\ recvFails = 0
    /\ Len(items) >= 2
    /\ items[1].kind = "AwaitOne" /\ items[2].kind = "AwaitOne"
    /\ promise[1].st = "value" /\ promise[2].st = "value"
    /\ Len(sent) >= 2 /\ SentItem(1) = 2 /\ SentItem(2) = 1

\* C2 (as claimed): when no reply read fails, the list sink of an await_many item
\* that is fulfilled holds exactly the replies to its own queries, in order,
\* whatever happened to the other items.
C2_Claim ==
    recvFails = 0 =>
        \A it \in Queued :
            (items[it].kind = "AwaitMany" /\ promise[it].st = "value")
                => promise[it].val = OwnReplies(it)

\* C3: the items of one priority class are dequeued and written in the order in
\* which they were queued: on the wire the class's items appear in queuing order, and
\* an item still queued was queued after every written item of its class.
C3_PerPriorityFifo ==
    /\ \A a, b \in Positions :
        (a < b /\ PrioOf(SentItem(a)) = PrioOf(SentItem(b))) => SentItem(a) <= SentItem(b)
    /\ \A p \in Prio : \A k \in 1 .. Len(Writes[p]) : \A a \in Positions :
        PrioOf(SentItem(a)) = p => SentItem(a) < Writes[p][k]
    /\ \A p \in Prio : \A k, l \in 1 .. Len(Writes[p]) : k < l => Writes[p][k] < Writes[p][l]

\* C3 witness: two items of one class were passed over by the write loop while the
\* class was suppressed, and both are on the wire after the class was unsuppressed.
C3_Witness ==
    /\ heldBack
    /\ \E a, b \in Positions :
        a < b /\ SentItem(a) < SentItem(b) /\ PrioOf(SentItem(a)) = PrioOf(SentItem(b))

\* a step of the write loop takes items from the queue of class p
DequeuesFrom(p) == Len(Writes'[p]) < Len(Writes[p])

\* C4 (as claimed): whenever the write loop dequeues from class p, p is not
\* suppressed and no item of a higher class is left waiting.
C4_Claim ==
    [][\A p \in Prio : DequeuesFrom(p) =>
            /\ p \notin m_SuppressedQueryKinds
            /\ \A q \in Prio : q < p => Writes'[q] = <<>>]_vars

\* C4 (amended): whenever the write loop dequeues from class p, it takes the head of
\* the queue, p is not suppressed, and no item of a higher class that is not
\* suppressed is left waiting.
C4_SelectionRule ==
    [][\A p \in Prio : DequeuesFrom(p) =>
            /\ p \notin m_SuppressedQueryKinds
            /\ Writes'[p] = SubSeq(Writes[p], Len(Writes[p]) - Len(Writes'[p]) + 1, Len(Writes[p]))
            /\ \A q \in Prio :
                (q < p /\ q \notin m_SuppressedQueryKinds) => Writes'[q] = <<>>]_vars

\* C4 witness: an item queued later at a higher priority is on the wire before an
\* item queued earlier at a lower priority.
C4_Witness ==
    \E a, b \in Positions :
        a < b /\ SentItem(a) > SentItem(b) /\ PrioOf(SentItem(a)) < PrioOf(SentItem(b))

\* C5: the queries of one item are adjacent on the wire, in their order, and the
\* DeliverBulk records of the ledger are, one to one and in order, the batches whose
\* list sinks wait in RepliesPromises, each with the batch's size as Amount.
C5_BatchContiguity ==
    /\ \A a, b, c \in Positions :
        (a < b /\ b < c /\ SentItem(a) = SentItem(c)) => SentItem(b) = SentItem(a)
    /\ \A a, b \in Positions :
        (b = a + 1 /\ SentItem(a) = SentItem(b)) => sent[b][2] = sent[a][2] + 1
    /\ Len(BulkRecords) = Len(RepliesPromises)
    /\ \A k \in 1 .. Len(RepliesPromises) :
        /\ k <= Len(BulkRecords)
        /\ items[RepliesPromises[k]].kind = "AwaitMany"
        /\ BulkRecords[k].Amount = items[RepliesPromises[k]].n

\* C5 witness: the first query of an await_many batch of two is written, and an item
\* of a higher class that is not suppressed, queued meanwhile, waits for the batch.
C5_Witness ==
    /\ wPc = "write" /\ wItem = 1 /\ wIdx = 1
    /\ Len(items) = 2 /\ items[1].kind = "AwaitMany" /\ items[1].n = 2
    /\ PrioOf(2) < PrioOf(1)
    /\ PrioOf(2) \notin m_SuppressedQueryKinds
    /\ Writes[PrioOf(2)] = <<2>>
    /\ sent = <<<<1, 1>>>>

\* C6 (as claimed): after send failures only, the replies the server owes for the
\* queries written are the replies the ledger accounts for.
C6_Claim == recvFails = 0 => Owed = Accounted

\* C7 (as claimed): a failed reply read of a DeliverBulk record leaves the read
\* loop running.
C7_Claim == rPc # "dead"

\* C8 (as claimed): the read loop leaves an Ignore record only with the last of its
\* Amount read attempts.
C8_Claim ==
    [][(rPc = "read" /\ rItem.Action = "Ignore" /\ rLeft > 1) =>
            (rPc' = "read" /\ rItem' = rItem /\ rLeft' \in {rLeft, rLeft - 1})]_vars

\* C9 (as claimed): a transport failure seen by the write or the read loop while
\* connected clears connected.
C9_Claim ==
    [][(m_Connected /\ sendFails' + recvFails' > sendFails + recvFails)
            => ~m_Connected']_vars

\* C10: one read loop and one write loop are spawned, with the first Start(); the
\* started flag is never cleared; there is never more than one connect task, and a
\* connect task is spawned only while none runs and none has succeeded.
C10_StartIdempotent ==
    /\ [](/\ readLoops = (IF m_Started THEN 1 ELSE 0)
          /\ writeLoops = (IF m_Started THEN 1 ELSE 0)
          /\ Len(connTasks) <= 1)
    /\ [][m_Started => m_Started']_vars
    /\ [][Len(connTasks') > Len(connTasks) => (connTasks = <<>> /\ ~m_Connected)]_vars

\* C10 witness: two Start() calls are between their two exchanges while the
\* connect task spawned by a third is running.
C10_Witness ==
    /\ starting >= 2
    /\ Len(connTasks) = 1
    /\ readLoops = 1 /\ writeLoops = 1

\* C11: a failed open attempt is followed by the timer wait and a new attempt;
\* connected becomes true only by a successful open and stays true; the callback
\* runs only while connected is true; after the successful open no further attempt
\* is made and the task exits; and, open attempts succeeding at some time, connected
\* becomes true after Start() unless the process was aborted before.
C11_ConnectLoop ==
    /\ [](\A i \in 1 .. Len(connTasks) : connTasks[i] = "callback" => m_Connected)
    /\ [](m_Connected => \A i \in 1 .. Len(connTasks) : connTasks[i] = "callback")
    /\ [][(~m_Connected /\ m_Connected') =>
            /\ \E i \in 1 .. Len(connTasks) : connTasks[i] = "connect"
            /\ \A i \in 1 .. Len(connTasks') : connTasks'[i] = "callback"]_vars
    /\ [][m_Connected => m_Connected']_vars
    /\ [][\A i \in 1 .. Len(connTasks) :
            connTasks[i] = "timer" =>
                (i <= Len(connTasks') /\ connTasks'[i] \in {"timer", "connect"})]_vars
    /\ [][\A i \in 1 .. Len(connTasks) :
            (connTasks[i] = "connect" /\ ~m_Connected') =>
                (i <= Len(connTasks') /\ connTasks'[i] \in {"connect", "timer"})]_vars
    /\ (m_Started ~> ((m_Connected /\ connTasks = <<>>) \/ halted))

\* C11 witness: Start() has returned, the open attempt of its connect task has
\* succeeded, and the task is in the callback with connected = true.
C11_Witness ==
    /\ m_Started /\ starting = 0
    /\ m_Connected /\ m_Connecting
    /\ connTasks = <<"callback">>

RECURSIVE SumDeliver(_)
SumDeliver(led) ==
    IF led = <<>>
    THEN 0
    ELSE (IF Head(led).Action = "Deliver" THEN Head(led).Amount ELSE 0) + SumDeliver(Tail(led))

\* promises of the Deliver record the read loop works on that are still in ReplyPromises
DeliverInHand == IF rPc = "read" /\ rItem.Action = "Deliver" THEN rLeft - 1 ELSE 0

Ledger == 1 .. Len(FutureResponseActions)

\* C12 (as claimed): in every state the Amounts of the ledger add up to the queries
\* written minus the replies consumed.
C12_Claim == SumAmount(FutureResponseActions) = Owed

\* C12 (amended): the Amounts of the ledger, plus the reads left of the record the
\* read loop has popped, plus the queries written of the item the write loop is
\* writing, never exceed the queries written minus the replies consumed, and are
\* equal to it as long as no transport send or receive has failed.
C12_LedgerSum ==
    /\ Accounted <= Owed
    /\ (sendFails = 0 /\ recvFails = 0) => Accounted = Owed

\* C12 witness: without failures, the read loop has read one of the two replies of
\* an Ignore(2) record it popped while the write loop has written one query of a
\* batch of two; the ledger is empty and two replies are owed.
C12_Witness ==
    /\ sendFails = 0 /\ recvFails = 0
    /\ rPc = "read" /\ rItem = Record(2, "Ignore") /\ rLeft = 1
    /\ wPc = "write" /\ wIdx = 1
    /\ FutureResponseActions = <<>>
    /\ Owed = 2

\* C13 (as claimed): in every state the Amounts of the Deliver records add up to
\* the length of ReplyPromises.
C13_Claim == SumDeliver(FutureResponseActions) = Len(ReplyPromises)

\* C13 (amended): the Amounts of the Deliver records, plus the promises of the
\* Deliver record the read loop has popped that it has not taken yet, add up to the
\* length of ReplyPromises.
C13_DeliverLockstep ==
    SumDeliver(FutureResponseActions) + DeliverInHand = Len(ReplyPromises)

\* C13 witness: the read loop has popped a Deliver(2) record and reads the reply for
\* its first promise; the second promise is still in ReplyPromises.
C13_Witness ==
    /\ rPc = "read" /\ rItem = Record(2, "Deliver") /\ rLeft = 2
    /\ Len(ReplyPromises) = 1
    /\ FutureResponseActions = <<>>

\* C14: in every state there are as many DeliverBulk records in the ledger as list
\* sinks in RepliesPromises, and every step changes both numbers by the same amount.
C14_BulkLockstep ==
    /\ [](Len(BulkRecords) = Len(RepliesPromises))
    /\ [][Len(BulkRecords') - Len(BulkRecords)
            = Len(RepliesPromises') - Len(RepliesPromises)]_vars

\* C14 witness: the read loop has popped the DeliverBulk record and the sink of one
\* batch, and the record and the sink of a second batch wait.
C14_Witness ==
    /\ rPc = "read" /\ rItem.Action = "DeliverBulk"
    /\ Len(RepliesPromises) = 1
    /\ Len(BulkRecords) = 1

\* C15: no two adjacent records of the ledger are both Ignore or both Deliver, and
\* every await_many batch whose sink waits in RepliesPromises has a DeliverBulk
\* record of its own, with the batch's size.
C15_Coalescing ==
    /\ \A i \in Ledger :
        (i < Len(FutureResponseActions)
            /\ FutureResponseActions[i].Action = FutureResponseActions[i + 1].Action)
                => FutureResponseActions[i].Action = "DeliverBulk"
    /\ Len(BulkRecords) >= Len(RepliesPromises)
    /\ \A k \in 1 .. Len(RepliesPromises) :
        BulkRecords[k] = Record(items[RepliesPromises[k]].n, "DeliverBulk")

\* C15 witness: a fire_many batch of two written after a fire_one item shares its
\* Ignore record.
C15_Witness ==
    /\ Len(items) = 2
    /\ items[1].kind = "FireOne" /\ items[2].kind = "FireMany" /\ items[2].n = 2
    /\ FutureResponseActions = <<Record(3, "Ignore")>>

\* C16 (as claimed): every record of the ledger has Amount >= 1.
C16_Claim == \A i \in Ledger : FutureResponseActions[i].Amount >= 1

\* the write loop writes the last query of the last of MaxItems items
WritesLast == Len(sent) = MaxItems - 1 /\ Len(sent') = MaxItems

\* C17 (as claimed): MaxItems fire_one items of one class were queued before the
\* write loop ran, nothing failed; when the last of them is written the ledger is
\* the one record Ignore(MaxItems).
C17_Claim ==
    [][(burst /\ sendFails = 0 /\ recvFails = 0 /\ WritesLast)
            => FutureResponseActions' = <<Record(MaxItems, "Ignore")>>]_vars

\* C17 (amended): in that state the ledger is one record Ignore(k), k >= 1, where k
\* is MaxItems less the queries of the records the read loop has popped already.
C17_FireCoalescing ==
    [][(burst /\ sendFails = 0 /\ recvFails = 0 /\ WritesLast)
            => /\ MaxItems - (consumed' + rLeft') >= 1
               /\ FutureResponseActions'
                    = <<Record(MaxItems - (consumed' + rLeft'), "Ignore")>>]_vars

\* C17 witness: all of the burst is written, nothing is read yet, and the ledger is
\* Ignore(MaxItems).
C17_Witness ==
    /\ burst /\ sendFails = 0 /\ recvFails = 0
    /\ Len(sent) = MaxItems
    /\ consumed = 0 /\ rLeft = 0
    /\ FutureResponseActions = <<Record(MaxItems, "Ignore")>>

\* C18 (as claimed): the write loop is in a transport write only while connected is
\* true.
C18_Claim == wPc = "write" => m_Connected

\* every queue that holds items belongs to a suppressed class
OnlySuppressedQueued == \A p \in Prio : Writes[p] # <<>> => p \in m_SuppressedQueryKinds

\* C19: whenever the write loop waits on a cleared m_QueuedWrites, every queue that
\* holds items belongs to a suppressed class, and the signal is cleared only by the
\* write loop going to wait; the write loop running and every transport write
\* completing, the queue of a class that is from some point on not suppressed is
\* empty again and again, unless the process is aborted.
C19_NoLostWriteWakeup ==
    /\ []((wPc = "wait" /\ ~m_QueuedWrites) => OnlySuppressedQueued)
    /\ [][(m_QueuedWrites /\ ~m_QueuedWrites') => (wPc' = "wait" /\ OnlySuppressedQueued')]_vars
    /\ \A p \in Prio :
        <>[](p \notin m_SuppressedQueryKinds) => []<>(Writes[p] = <<>> \/ halted \/ wPc = "none")

\* C19 witness: the write loop has gone to wait with the signal cleared while an
\* item was queued in a suppressed class; the class is unsuppressed now and the
\* signal is set again.
C19_Witness ==
    /\ wPc = "wait" /\ m_QueuedWrites
    /\ m_SuppressedQueryKinds = {}
    /\ heldBack
    /\ \E p \in Prio : Len(Writes[p]) = 2

\* C20: whenever the read loop waits on a cleared m_QueuedReads the ledger is
\* empty, and the signal is cleared only by the read loop going to wait with the
\* ledger empty.
C20_NoLostReadWakeup ==
    /\ []((rPc = "wait" /\ ~m_QueuedReads) => FutureResponseActions = <<>>)
    /\ [][(m_QueuedReads /\ ~m_QueuedReads') =>
            (rPc' = "wait" /\ FutureResponseActions' = <<>>)]_vars

\* C20 witness: the read loop waits on the cleared signal after it has read the
\* replies of two records, an Ignore and a Deliver one, and nothing is owed.
C20_Witness ==
    /\ rPc = "wait" /\ ~m_QueuedReads
    /\ Len(items) = 2 /\ items[1].kind = "FireOne" /\ items[2].kind = "AwaitOne"
    /\ Len(sent) = 2 /\ SentItem(1) = 1
    /\ promise[2] = Value(<<<<2, 1>>>>)
    /\ consumed = 2
====
